---- MODULE Spec2Model ----
(***************************************************************************)
(* Model of package analyse (src/analyse/tag_extracker.go): the TF-IDF tag *)
(* extractor TagExtracter with its two extractors ExtractTags and          *)
(* CNExtractTags, the ordering of Segments, and the three Load operations. *)
(*                                                                         *)
(* Strings are sequences of code points, so that trimming, rune counting,  *)
(* digit detection and lexicographic comparison are computed, not assumed. *)
(* float64 values are modelled as exact reduced fractions [n, d].          *)
(***************************************************************************)
EXTENDS Integers, Sequences, FiniteSets, TLC

VARIABLES sentence, topK, seg, idf, stopWord, ret, prev, loadedStop

vars == <<sentence, topK, seg, idf, stopWord, ret, prev, loadedStop>>

(* ------------------------------ bounds -------------------------------- *)

MaxLen == 3

MaxTopK == 2

MaxPartial == 1

(* ------------------------- strings and floats ------------------------- *)

\* unicode.IsSpace on the alphabet of the model: U+0020 and the ASCII controls
IsSpace(r) == r = 32 \/ r \in 9..13

\* unicode.IsNumber on the alphabet of the model: the ASCII digits
IsNumber(r) == r \in 48..57

RECURSIVE TrimLeft(_)
TrimLeft(w) ==
    IF w # <<>> /\ IsSpace(Head(w)) THEN TrimLeft(Tail(w)) ELSE w

RECURSIVE TrimRight(_)
TrimRight(w) ==
    IF w # <<>> /\ IsSpace(w[Len(w)]) THEN TrimRight(SubSeq(w, 1, Len(w) - 1)) ELSE w

\* strings.TrimSpace
TrimSpace(w) == TrimRight(TrimLeft(w))

\* utf8.RuneCountInString: one element of the sequence is one rune
RuneCountInString(w) == Len(w)

\* the string comparison a < b of Go: lexicographic, a proper prefix is smaller
RECURSIVE StrLess(_, _)
StrLess(a, b) ==
    IF b = <<>> THEN FALSE
    ELSE IF a = <<>> THEN TRUE
    ELSE IF Head(a) # Head(b) THEN Head(a) < Head(b)
    ELSE StrLess(Tail(a), Tail(b))

RECURSIVE GCD(_, _)
GCD(a, b) == IF b = 0 THEN a ELSE GCD(b, a % b)

\* a non-negative float64 as the reduced fraction n/d
Rat(n, d) == LET g == GCD(n, d) IN [n |-> n \div g, d |-> d \div g]

RatMul(x, y) == Rat(x.n * y.n, x.d * y.d)

RatLess(x, y) == x.n * y.d < y.n * x.d

Zero == Rat(0, 1)

(* ------------------------------ inputs -------------------------------- *)

ab == <<97, 98>>

ba == <<98, 97>>

cd == <<99, 100>>

num12 == <<49, 50>>

the == <<116, 104, 101>>

quick == <<113, 117, 105, 99, 107>>

brown == <<98, 114, 111, 119, 110>>

fox == <<102, 111, 120>>

\* the tokens the segmenter hands over: " ba " needs trimming, " a" is two
\* runes long but one rune after trimming, "12" is purely numeric
Tokens == {ab, <<32, 98, 97, 32>>, cd, <<32, 97>>, num12}

RECURSIVE SeqsUpTo(_, _)
SeqsUpTo(S, k) ==
    IF k = 0 THEN {<<>>}
    ELSE LET shorter == SeqsUpTo(S, k - 1)
         IN  shorter \cup {Append(s, x) : s \in shorter, x \in S}

Scenario == <<the, quick, brown, fox, the, quick, brown, fox>>

\* a sentence is given by the token stream that Cut produces for it
Sentences == SeqsUpTo(Tokens, MaxLen) \cup {Scenario}

TopKs == (0 - 1) .. MaxTopK

\* dictionary files: a sequence of lines <<text, value>>
IdfFile == << <<ab, Rat(1, 1)>>, <<cd, Rat(1, 1)>>, <<num12, Rat(1, 2)>>,
              <<quick, Rat(2, 1)>>, <<brown, Rat(3, 2)>> >>

StopFile == <<ba, cd>>

(* --------------------- dictionaries (collaborators) ------------------- *)

EmptyMap == [k \in {} |-> Zero]

\* the map a dictionary file leaves after its first k lines were read
RECURSIVE FileMap(_, _)
FileMap(file, k) ==
    IF k = 0 THEN EmptyMap
    ELSE (file[k][1] :> file[k][2]) @@ FileMap(file, k - 1)

\* the median of the values of the first k lines: element k/2 (counted from
\* zero) of the sorted values, and zero for an empty table
Median(file, k) ==
    IF k = 0 THEN Zero
    ELSE LET v(i) == file[i][2]
             below(x) == Cardinality({i \in 1..k : RatLess(v(i), x)})
             upto(x)  == Cardinality({i \in 1..k : ~RatLess(x, v(i))})
         IN  CHOOSE x \in {v(i) : i \in 1..k} :
                 below(x) <= k \div 2 /\ k \div 2 < upto(x)

\* t.idf before any LoadIdf
NilIdf == [nil |-> TRUE, freqMap |-> EmptyMap, median |-> Zero, err |-> FALSE]

NewIdf == [nil |-> FALSE, freqMap |-> EmptyMap, median |-> Zero, err |-> FALSE]

\* Idf.loadDictionary: the table after k lines of the file; err tells
\* whether the load reported a failure
idfLoadDictionary(i, file, k, failed) ==
    [i EXCEPT !.freqMap = FileMap(file, k), !.median = Median(file, k),
              !.err = failed]

\* Idf.Frequency: found reports whether the token is a key
Frequency(i, k) ==
    IF ~i.nil /\ k \in DOMAIN i.freqMap
    THEN [freq |-> i.freqMap[k], ok |-> TRUE]
    ELSE [freq |-> Zero, ok |-> FALSE]

\* t.stopWord before any LoadDictionary or LoadStopWords
NilStopWord == [nil |-> TRUE, set |-> {}, err |-> FALSE]

NewStopWord == [nil |-> FALSE, set |-> {}, err |-> FALSE]

stopLoadDictionary(s, file, k, failed) ==
    [s EXCEPT !.set = {file[i] : i \in 1..k}, !.err = failed]

IsStopWord(s, w) == ~s.nil /\ w \in s.set

(* ------------------------------ Segments ------------------------------ *)

Segment(text, weight) == [text |-> text, weight |-> weight]

\* Less with the comparison of the texts turned round
LessTextDescending(si, sj) ==
    IF si.weight = sj.weight
    THEN StrLess(sj.text, si.text)
    ELSE RatLess(si.weight, sj.weight)

\* Less without the comparison of the texts
LessWeightOnly(si, sj) == RatLess(si.weight, sj.weight)

\* Segments.Less on two elements
Less(si, sj) ==
    IF si.weight = sj.weight
    THEN StrLess(si.text, sj.text)
    ELSE RatLess(si.weight, sj.weight)

\* sort.Reverse: Less(i, j) of the reversed collection is Less(j, i)
ReverseLess(si, sj) == Less(sj, si)

Swap(ss, i, j) == [ss EXCEPT ![i] = ss[j], ![j] = ss[i]]

\* the inner loop of the insertion sort sort.Sort runs on short slices
RECURSIVE Insert(_, _)
Insert(ss, j) ==
    IF j > 1 /\ ReverseLess(ss[j], ss[j - 1])
    THEN Insert(Swap(ss, j, j - 1), j - 1)
    ELSE ss

RECURSIVE InsertionSort(_, _)
InsertionSort(ss, i) ==
    IF i > Len(ss) THEN ss ELSE InsertionSort(Insert(ss, i), i + 1)

\* sort.Sort(sort.Reverse(ws))
SortReverse(ws) == InsertionSort(ws, 2)

\* the final slice with topK > 0 for topK >= 0
TruncatePositive(ws, k) ==
    IF k > 0 /\ Len(ws) > k THEN SubSeq(ws, 1, k) ELSE ws

\* the final slice of both extractors
Truncate(ws, k) ==
    IF k >= 0 /\ Len(ws) > k THEN SubSeq(ws, 1, k) ELSE ws

\* the orders in which a range over a map with these keys can visit them
Orders(keys) ==
    {o \in [1..Cardinality(keys) -> keys] :
        \A i, j \in 1..Cardinality(keys) : i # j => o[i] # o[j]}

(* ----------------------------- ExtractTags ---------------------------- *)

\* the loop body counting the runes of the untrimmed token
ExtractStepRawLength(freqMap, stop, raw) ==
    LET w == TrimSpace(raw)
    IN  IF RuneCountInString(raw) < 2 THEN freqMap
        ELSE IF IsStopWord(stop, w) THEN freqMap
        ELSE IF w \in DOMAIN freqMap
             THEN [freqMap EXCEPT ![w] = @ + 1]
             ELSE (w :> 1) @@ freqMap

\* one pass of the loop body: the map after the token raw was handled
ExtractStep(freqMap, stop, raw) ==
    LET w == TrimSpace(raw)
    IN  IF RuneCountInString(w) < 2 THEN freqMap
        ELSE IF IsStopWord(stop, w) THEN freqMap
        ELSE IF w \in DOMAIN freqMap
             THEN [freqMap EXCEPT ![w] = @ + 1]
             ELSE (w :> 1) @@ freqMap

\* the loop over t.seg.Cut(sentence, true)
RECURSIVE ExtractFreq(_, _, _)
ExtractFreq(stream, stop, freqMap) ==
    IF stream = <<>> THEN freqMap
    ELSE ExtractFreq(Tail(stream), stop, ExtractStep(freqMap, stop, Head(stream)))

\* total += freq, over the map
RECURSIVE Total(_)
Total(freqMap) ==
    IF DOMAIN freqMap = {} THEN 0
    ELSE LET k == CHOOSE x \in DOMAIN freqMap : TRUE
         IN  freqMap[k] + Total([x \in DOMAIN freqMap \ {k} |-> freqMap[x]])

\* freqMap[k] = v / total
Normalize(freqMap) ==
    LET total == Total(freqMap)
    IN  [k \in DOMAIN freqMap |-> Rat(freqMap[k], total)]

\* the segment built without the fallback to the median
ExtractSegmentNoMedian(i, k, v) ==
    Segment(k, RatMul(Frequency(i, k).freq, v))

\* the segment built for key k: the IDF value, or the median, times v
ExtractSegment(i, k, v) ==
    LET f == Frequency(i, k)
    IN  IF f.ok THEN Segment(k, RatMul(f.freq, v))
                ELSE Segment(k, RatMul(i.median, v))

\* the median read through the nil pointer before the map is looked at
ExtractPanicsEager(i, freqMap) == i.nil

\* t.idf.median is read through a nil pointer when a key is not found
ExtractPanics(i, freqMap) ==
    i.nil /\ \E k \in DOMAIN freqMap : ~Frequency(i, k).ok

\* ws after the sort, the map being visited in the given order
ExtractRanked(stream, stop, i, order) ==
    LET freqMap == Normalize(ExtractFreq(stream, stop, EmptyMap))
        ws == [n \in 1..Len(order) |-> ExtractSegment(i, order[n], freqMap[order[n]])]
    IN  SortReverse(ws)

(* ---------------------------- CNExtractTags --------------------------- *)

\* isDigit
RECURSIVE isDigit(_)
isDigit(w) ==
    IF w = <<>> THEN FALSE
    ELSE /\ IsNumber(Head(w))
         /\ (Tail(w) = <<>> \/ isDigit(Tail(w)))

\* the loop body counting the occurrences, as ExtractTags does
CNStepCounting(acc, stop, raw) ==
    LET w == TrimSpace(raw)
        numCount == IF isDigit(w) THEN acc.numCount + 1 ELSE acc.numCount
    IN  IF RuneCountInString(w) < 2 THEN acc
        ELSE IF IsStopWord(stop, w) THEN acc
        ELSE IF isDigit(w) /\ numCount > 0
             THEN [acc EXCEPT !.numCount = numCount]
        ELSE [numCount |-> numCount,
              words |-> Append(acc.words, w),
              freqMap |-> IF w \in DOMAIN acc.freqMap
                          THEN [acc.freqMap EXCEPT ![w] = @ + 1]
                          ELSE (w :> 1) @@ acc.freqMap]

\* the loop body letting the first numeric token through
CNStepFirstDigit(acc, stop, raw) ==
    LET w == TrimSpace(raw)
        numCount == IF isDigit(w) THEN acc.numCount + 1 ELSE acc.numCount
    IN  IF RuneCountInString(w) < 2 THEN acc
        ELSE IF IsStopWord(stop, w) THEN acc
        ELSE IF isDigit(w) /\ numCount > 1
             THEN [acc EXCEPT !.numCount = numCount]
        ELSE [numCount |-> numCount,
              words |-> Append(acc.words, w),
              freqMap |-> IF w \in DOMAIN acc.freqMap
                          THEN [acc.freqMap EXCEPT ![w] = 1]
                          ELSE (w :> 1) @@ acc.freqMap]

\* one pass of the loop body; acc holds numCount, words and freqMap
CNStep(acc, stop, raw) ==
    LET w == TrimSpace(raw)
        numCount == IF isDigit(w) THEN acc.numCount + 1 ELSE acc.numCount
    IN  IF RuneCountInString(w) < 2 THEN acc
        ELSE IF IsStopWord(stop, w) THEN acc
        ELSE IF isDigit(w) /\ numCount > 0
             THEN [acc EXCEPT !.numCount = numCount]
        ELSE [numCount |-> numCount,
              words |-> Append(acc.words, w),
              freqMap |-> IF w \in DOMAIN acc.freqMap
                          THEN [acc.freqMap EXCEPT ![w] = 1]
                          ELSE (w :> 1) @@ acc.freqMap]

\* the loop over t.seg.Cut(sentence, true)
RECURSIVE CNFreq(_, _, _)
CNFreq(stream, stop, acc) ==
    IF stream = <<>> THEN acc
    ELSE CNFreq(Tail(stream), stop, CNStep(acc, stop, Head(stream)))

CNStart == [numCount |-> 0, words |-> <<>>, freqMap |-> EmptyMap]

\* the keys for which a segment is appended: the others are skipped
RECURSIVE CNSegments(_, _, _)
CNSegments(i, order, freqMap) ==
    IF order = <<>> THEN <<>>
    ELSE LET k == Head(order)
             f == Frequency(i, k)
             more == CNSegments(i, Tail(order), freqMap)
         IN  IF f.ok THEN <<Segment(k, RatMul(f.freq, Rat(freqMap[k], 1)))>> \o more
                     ELSE more

CNRanked(freqMap, i, order) == SortReverse(CNSegments(i, order, freqMap))

(* ------------------------------ the engine ---------------------------- *)

NoRet == [op |-> "none", err |-> FALSE, panicked |-> FALSE,
          ws |-> <<>>, tags |-> <<>>, words |-> <<>>]

NoLoad == [valid |-> FALSE, set |-> {}]

Init ==
    /\ sentence \in Sentences
    /\ topK \in TopKs
    /\ seg = FALSE
    /\ idf = NilIdf
    /\ stopWord = NilStopWord
    /\ ret = NoRet
    /\ prev = NoRet
    /\ loadedStop = NoLoad

\* LoadDictionary, the segmenter's own load succeeding or failing
LoadDictionary(failed) ==
    /\ stopWord' = NewStopWord
    /\ seg' = TRUE
    /\ ret' = [NoRet EXCEPT !.op = "LoadDictionary", !.err = failed]
    /\ prev' = NoRet
    /\ UNCHANGED <<sentence, topK, idf, loadedStop>>

\* LoadIdf: k lines of the file are read, the load fails when k is short
LoadIdf(k) ==
    LET failed == k < Len(IdfFile) IN
    /\ idf' = idfLoadDictionary(NewIdf, IdfFile, k, failed)
    /\ ret' = [NoRet EXCEPT !.op = "LoadIdf", !.err = failed]
    /\ prev' = NoRet
    /\ UNCHANGED <<sentence, topK, seg, stopWord, loadedStop>>

\* LoadStopWords: k lines of the file are read, the load fails when k is short
LoadStopWords(k) ==
    LET failed == k < Len(StopFile) IN
    /\ stopWord' = stopLoadDictionary(NewStopWord, StopFile, k, failed)
    /\ ret' = [NoRet EXCEPT !.op = "LoadStopWords", !.err = failed]
    /\ loadedStop' = IF failed THEN NoLoad
                     ELSE [valid |-> TRUE, set |-> stopWord'.set]
    /\ prev' = NoRet
    /\ UNCHANGED <<sentence, topK, seg, idf>>

ExtractTags ==
    /\ seg
    /\ LET freqMap == ExtractFreq(sentence, stopWord, EmptyMap) IN
       \E order \in Orders(DOMAIN freqMap) :
          LET ws == ExtractRanked(sentence, stopWord, idf, order) IN
          ret' = IF ExtractPanics(idf, freqMap)
                 THEN [NoRet EXCEPT !.op = "ExtractTags", !.panicked = TRUE]
                 ELSE [NoRet EXCEPT !.op = "ExtractTags", !.ws = ws,
                                    !.tags = Truncate(ws, topK)]
    /\ prev' = IF ret.op \in {"ExtractTags", "CNExtractTags"} THEN ret ELSE NoRet
    /\ UNCHANGED <<sentence, topK, seg, idf, stopWord, loadedStop>>

CNExtractTags ==
    /\ seg
    /\ LET acc == CNFreq(sentence, stopWord, CNStart) IN
       \E order \in Orders(DOMAIN acc.freqMap) :
          LET ws == CNRanked(acc.freqMap, idf, order) IN
          ret' = [NoRet EXCEPT !.op = "CNExtractTags", !.ws = ws,
                               !.tags = Truncate(ws, topK),
                               !.words = acc.words]
    /\ prev' = IF ret.op \in {"ExtractTags", "CNExtractTags"} THEN ret ELSE NoRet
    /\ UNCHANGED <<sentence, topK, seg, idf, stopWord, loadedStop>>

PartialLoads(file) == {k \in 0..MaxPartial : k < Len(file)}

Next ==
    \/ \E failed \in BOOLEAN : LoadDictionary(failed)
    \/ \E k \in PartialLoads(IdfFile) \cup {Len(IdfFile)} : LoadIdf(k)
    \/ \E k \in PartialLoads(StopFile) \cup {Len(StopFile)} : LoadStopWords(k)
    \/ ExtractTags
    \/ CNExtractTags

Spec == Init /\ [][Next]_vars

(* ------------------------ vocabulary of the claims -------------------- *)

Extractors == {"ExtractTags", "CNExtractTags"}

\* the last operation was op and it returned
Returned(op) == ret.op = op /\ ~ret.panicked

Trimmed(i) == TrimSpace(sentence[i])

\* the positions of the sentence whose token passes the length and the
\* stop-word filter of the engine's present stop-word set
Kept == {i \in DOMAIN sentence :
            Len(Trimmed(i)) >= 2 /\ Trimmed(i) \notin stopWord.set}

Survivors == {Trimmed(i) : i \in Kept}

Occurrences(w) == Cardinality({i \in Kept : Trimmed(i) = w})

Texts(ss) == {ss[i].text : i \in DOMAIN ss}

Min(a, b) == IF a < b THEN a ELSE b

(* -------------------------------- C1 ---------------------------------- *)

C2_TopK ==
    Returned("ExtractTags") =>
        LET n == Cardinality(Survivors) IN
        /\ Len(ret.ws) = n
        /\ Texts(ret.ws) = Survivors
        /\ topK >= 0 => /\ ret.tags = SubSeq(ret.ws, 1, Min(topK, n))
                        /\ Len(ret.tags) <= topK
        /\ topK < 0 => ret.tags = ret.ws /\ Len(ret.tags) = n

\* ExtractTags cut a longer ranking down to topK = 0 elements
C2_Witness ==
    /\ Returned("ExtractTags")
    /\ topK = 0
    /\ Cardinality(Survivors) >= 2
    /\ ret.tags = <<>>

(* -------------------------------- C3 ---------------------------------- *)

Filtered(w) == Len(TrimSpace(w)) < 2 \/ IsStopWord(stopWord, w)

\* C3: no token whose trimmed form has fewer than 2 characters and no token
\* that the stop-word filter reports appears in the collection of
\* ExtractTags, in the collection of CNExtractTags or in its token sequence.
C3_Filtered ==
    ret.op \in Extractors =>
        /\ \A i \in DOMAIN ret.tags : ~Filtered(ret.tags[i].text)
        /\ \A i \in DOMAIN ret.words : ~Filtered(ret.words[i])
        /\ \A i \in DOMAIN sentence :
              Filtered(sentence[i]) =>
                  /\ sentence[i] \notin Texts(ret.tags)
                  /\ \A j \in DOMAIN ret.words : ret.words[j] # sentence[i]

\* ExtractTags returned a segment for a sentence that also holds a stop
\* word and a token that is too short once trimmed
C3_Witness ==
    /\ Returned("ExtractTags")
    /\ ret.tags # <<>>
    /\ \E i \in DOMAIN sentence : Len(sentence[i]) >= 2 /\ Len(Trimmed(i)) < 2
    /\ \E i \in DOMAIN sentence : IsStopWord(stopWord, Trimmed(i))

(* -------------------------------- C4 ---------------------------------- *)

IdfValue(w) == IF w \in DOMAIN idf.freqMap THEN idf.freqMap[w] ELSE idf.median

ScenarioTable ==
    /\ ~idf.nil
    /\ quick \in DOMAIN idf.freqMap /\ idf.freqMap[quick] = Rat(2, 1)
    /\ brown \in DOMAIN idf.freqMap /\ idf.freqMap[brown] = Rat(3, 2)
    /\ the \notin DOMAIN idf.freqMap /\ fox \notin DOMAIN idf.freqMap
    /\ idf.median = Rat(1, 1)

\* C4: every segment ExtractTags returns weighs idf(token) times the share of
\* the token among the surviving occurrences, idf(token) being the table's
\* value or else its median; and the scenario sentence with quick = 2.0,
\* brown = 1.5, median = 1.0 and topK = 2 gives [(quick, 0.5), (brown, 0.375)].
C4_Weight ==
    Returned("ExtractTags") =>
        /\ \A i \in DOMAIN ret.tags :
              LET s == ret.tags[i]
                  v == IdfValue(s.text)
              IN  s.weight.n * v.d * Cardinality(Kept)
                      = v.n * Occurrences(s.text) * s.weight.d
        /\ (sentence = Scenario /\ topK = 2 /\ ScenarioTable
              /\ Cardinality(Survivors) = 4)
               => ret.tags = <<Segment(quick, Rat(1, 2)), Segment(brown, Rat(3, 8))>>

\* ExtractTags ranked the scenario sentence against the scenario table
C4_Witness ==
    /\ Returned("ExtractTags")
    /\ sentence = Scenario /\ topK = 2 /\ ScenarioTable
    /\ Cardinality(Survivors) = 4
    /\ Len(ret.tags) = 2

(* -------------------------------- C5 ---------------------------------- *)

\* C5: the collection of CNExtractTags holds only keys of the IDF table, at
\* most one segment per token, each with exactly the token's IDF value as
\* its weight, however often the token occurs.
C5_CNWeights ==
    Returned("CNExtractTags") =>
        /\ \A i \in DOMAIN ret.tags :
              /\ ~idf.nil
              /\ ret.tags[i].text \in DOMAIN idf.freqMap
              /\ ret.tags[i].weight = idf.freqMap[ret.tags[i].text]
        /\ \A i, j \in DOMAIN ret.tags :
              ret.tags[i].text = ret.tags[j].text => i = j

\* CNExtractTags returned a segment for a token that occurs twice and dropped
\* a surviving token that the table does not hold
C5_Witness ==
    /\ Returned("CNExtractTags")
    /\ \E i \in DOMAIN ret.tags : Occurrences(ret.tags[i].text) >= 2
    /\ \E w \in Survivors : w \notin DOMAIN idf.freqMap /\ ~isDigit(w)

(* -------------------------------- C6 ---------------------------------- *)

\* C6: an extractor called twice in a row with the same sentence and topK
\* and unchanged dictionaries returns the same result both times, whatever
\* the order in which each call visits the frequency map.
C6_Deterministic ==
    (ret.op \in Extractors /\ prev.op = ret.op) => prev = ret

\* the extractor ran twice on a sentence whose ranking holds a tie of weights
C6_Witness ==
    /\ ret.op = "ExtractTags" /\ prev.op = "ExtractTags"
    /\ Len(ret.tags) >= 2
    /\ ret.tags[1].weight = ret.tags[2].weight

(* -------------------------------- C7 ---------------------------------- *)

\* C7: when no token of the sentence survives the filters, both extractors
\* return, with an empty collection; and no returned segment has a weight
\* with a zero denominator.
C7_NoSurvivor ==
    ret.op \in Extractors =>
        /\ Survivors = {} => (~ret.panicked /\ ret.tags = <<>> /\ ret.ws = <<>>)
        /\ \A i \in DOMAIN ret.tags : ret.tags[i].weight.d > 0

\* ExtractTags ran on a sentence of stop words and short tokens only, with
\* no IDF table loaded
C7_Witness ==
    /\ ret.op = "ExtractTags"
    /\ idf.nil
    /\ Survivors = {}
    /\ \E i \in DOMAIN sentence : IsStopWord(stopWord, Trimmed(i))
    /\ \E i \in DOMAIN sentence : Len(Trimmed(i)) < 2

(* -------------------------------- C8 ---------------------------------- *)

\* C8: once LoadStopWords has succeeded, the engine keeps filtering with
\* exactly the set it loaded, until another LoadStopWords call.
C8_StopWordsKept ==
    loadedStop.valid => (~stopWord.nil /\ stopWord.set = loadedStop.set)

(* -------------------------------- C9 ---------------------------------- *)

\* C9: an extractor never filters against a stop-word set, and never scores
\* against an IDF table, that a failed load produced.
C9_NoFailedTable ==
    ret.op \in Extractors =>
        /\ (\E i \in DOMAIN sentence : Len(Trimmed(i)) >= 2) => ~stopWord.err
        /\ Survivors # {} => ~idf.err

(* -------------------------------- C10 --------------------------------- *)

KeptNonNumeric(w) ==
    Len(TrimSpace(w)) >= 2 /\ ~IsStopWord(stopWord, TrimSpace(w)) /\ ~isDigit(TrimSpace(w))

\* C10: CNExtractTags returns no purely numeric token, neither in the token
\* sequence nor in the collection, and the token sequence holds the
\* surviving non-numeric tokens in their order of appearance, duplicates kept.
C10_Numeric ==
    Returned("CNExtractTags") =>
        /\ \A i \in DOMAIN ret.words : ~isDigit(ret.words[i])
        /\ \A i \in DOMAIN ret.tags : ~isDigit(ret.tags[i].text)
        /\ ret.words = [i \in 1..Len(SelectSeq(sentence, KeptNonNumeric)) |->
                           TrimSpace(SelectSeq(sentence, KeptNonNumeric)[i])]

\* CNExtractTags ran on a sentence that begins with a numeric token and
\* holds a surviving token twice
C10_Witness ==
    /\ Returned("CNExtractTags")
    /\ sentence # <<>> /\ isDigit(Trimmed(1)) /\ 1 \in Kept
    /\ \E i, j \in DOMAIN ret.words : i # j /\ ret.words[i] = ret.words[j]

====
